---------------------------- MODULE Spec2Model ----------------------------
(***************************************************************************)
(* A model of interface.py: the Problem abstraction, the concrete          *)
(* RectangularVolumeProblem and the Tk shell ProblemSolverApp.             *)
(*                                                                         *)
(* Text (an entry's content, the text panel's content) is a sequence of    *)
(* one-character strings, so that float(...) and str(float) are computed   *)
(* character by character.  A float is a dyadic rational                   *)
(*     (-1)^neg * num / 2^exp                                              *)
(* kept normalised (num odd when exp > 0).  Every such value within the    *)
(* model's bounds is exactly a binary double, products of them are exact,  *)
(* and Python's repr of them is their finite decimal expansion.            *)
(***************************************************************************)
EXTENDS Integers, Sequences, FiniteSets, TLC

VARIABLES
    problem_class,  \* "RectangularVolumeProblem" or "Problem" (the base class)
    parameters,     \* problem.parameters: a dict, as a sequence of <<key, value>>
    result,         \* problem.result, None while absent
    entries,        \* the <name>_entry widgets' texts, by parameter name
    figure,         \* pyplot's current figure: the bars drawn since the last clf
    canvas,         \* what canvas.draw() rendered last
    text_state,     \* result_text's state: "disabled" or "normal"
    text_content,   \* result_text's content
    dialogs,        \* the messages of the error dialogs shown so far
    pc,             \* the position of the event loop / of on_submit
    idx,            \* the position inside the for loop or update_plot_and_text
    exc,            \* the exception in flight ("none" when there is none)
    outcome,        \* how the last on_submit ended
    pre,            \* the state when the running (or last) on_submit started
    calls,          \* the calls the running (or last) on_submit has made
    keys0,          \* the keys of problem.parameters at construction
    edits,          \* the number of field edits so far
    submits         \* the number of clicks on Submit so far

vars == <<problem_class, parameters, result, entries, figure, canvas, text_state,
          text_content, dialogs, pc, idx, exc, outcome, pre, calls, keys0,
          edits, submits>>

-----------------------------------------------------------------------------
(* Bounds of the exploration *)

MaxEdits == 3

MaxSubmits == 2

-----------------------------------------------------------------------------
(* Python values *)

None == [tag |-> "None"]

RECURSIVE Pow(_, _)
Pow(b, n) == IF n = 0 THEN 1 ELSE b * Pow(b, n - 1)

RECURSIVE Normal(_, _, _)
Normal(neg, num, exp) ==
    IF num = 0 THEN [tag |-> "float", neg |-> neg, num |-> 0, exp |-> 0]
    ELSE IF exp > 0 /\ num % 2 = 0 THEN Normal(neg, num \div 2, exp - 1)
    ELSE [tag |-> "float", neg |-> neg, num |-> num, exp |-> exp]

FloatMul(a, b) == Normal(a.neg # b.neg, a.num * b.num, a.exp + b.exp)

-----------------------------------------------------------------------------
(* float(text): surrounding whitespace is stripped, then an optional sign, *)
(* then decimal digits with at most one point and at least one digit.      *)
(* The texts of the model are over the alphabet of digits, ".", "+", "-",  *)
(* " ", "a", "b", "c": exponents, underscores, "inf" and "nan" cannot be   *)
(* written in it.                                                          *)

DigitChars == <<"0", "1", "2", "3", "4", "5", "6", "7", "8", "9">>

IsDigit(c) == \E i \in 1..Len(DigitChars) : DigitChars[i] = c

DigitVal(c) == (CHOOSE i \in 1..Len(DigitChars) : DigitChars[i] = c) - 1

RECURSIVE LStrip(_)
LStrip(s) == IF s # <<>> /\ Head(s) = " " THEN LStrip(Tail(s)) ELSE s

RECURSIVE RStrip(_)
RStrip(s) ==
    IF s # <<>> /\ s[Len(s)] = " " THEN RStrip(SubSeq(s, 1, Len(s) - 1)) ELSE s

Strip(s) == RStrip(LStrip(s))

HasSign(s) == s # <<>> /\ Head(s) \in {"+", "-"}

Unsigned(s) == IF HasSign(s) THEN Tail(s) ELSE s

PointAt(s) == {i \in 1..Len(s) : s[i] = "."}

DigitsOf(s) == SelectSeq(s, IsDigit)

RECURSIVE DigitsVal(_)
DigitsVal(d) ==
    IF d = <<>> THEN 0 ELSE 10 * DigitsVal(SubSeq(d, 1, Len(d) - 1)) + DigitVal(d[Len(d)])

\* the number of digits after the decimal point
Scale(s) == IF PointAt(s) = {} THEN 0 ELSE Len(s) - (CHOOSE i \in PointAt(s) : TRUE)

\* whether float(text) returns (TRUE) or raises ValueError (FALSE)
IsFloatText(text) ==
    LET u == Unsigned(Strip(text))
    IN  /\ \A i \in 1..Len(u) : IsDigit(u[i]) \/ u[i] = "."
        /\ Cardinality(PointAt(u)) <= 1
        /\ DigitsOf(u) # <<>>

\* float(text) for a text that parses and denotes a dyadic rational: the
\* decimal n / 10^k is (n / 5^k) / 2^k.  A decimal that is no dyadic rational
\* (0.1) is rounded by Python to the nearest double; no text of the model is
\* one, and the CASE has no arm for it.
StrToFloat(text) ==
    LET s == Strip(text)
        u == Unsigned(s)
        n == DigitsVal(DigitsOf(u))
        k == Scale(u)
    IN  CASE n % Pow(5, k) = 0 ->
             Normal(HasSign(s) /\ Head(s) = "-", n \div Pow(5, k), k)

-----------------------------------------------------------------------------
(* str(value), as an f-string or Entry.insert formats it *)

RECURSIVE NatToStr(_)
NatToStr(n) ==
    IF n < 10 THEN <<DigitChars[n + 1]>>
    ELSE NatToStr(n \div 10) \o <<DigitChars[(n % 10) + 1]>>

RECURSIVE ZeroPad(_, _)
ZeroPad(s, width) == IF Len(s) >= width THEN s ELSE ZeroPad(<<"0">> \o s, width)

FloatReprNoFraction(f) ==
    (IF f.neg THEN <<"-">> ELSE <<>>) \o NatToStr(f.num \div Pow(2, f.exp))

\* repr of a float: the shortest decimal that round-trips, which for a dyadic
\* rational in [1e-4, 1e16) is its exact expansion, ".0" when it is integral
FloatRepr(f) ==
    (IF f.neg THEN <<"-">> ELSE <<>>)
        \o NatToStr(f.num \div Pow(2, f.exp))
        \o <<".">>
        \o (IF f.exp = 0 THEN <<"0">>
            ELSE ZeroPad(NatToStr((f.num % Pow(2, f.exp)) * Pow(5, f.exp)), f.exp))

PyStr(v) == IF v = None THEN <<"N", "o", "n", "e">> ELSE FloatRepr(v)


-----------------------------------------------------------------------------
(* dict: insertion-ordered, a sequence of <<key, value>> with distinct keys *)

Keys(d) == {d[i][1] : i \in 1..Len(d)}

GetItem(d, k) == d[CHOOSE i \in 1..Len(d) : d[i][1] = k][2]

\* a mutant of SetItem: the value is stored under the label's spelling of the
\* key (str.capitalize), as a new key
Capitalize(k) ==
    CASE k = "length" -> "Length"
      [] k = "width" -> "Width"
      [] k = "height" -> "Height"
      [] OTHER -> "X"

SetItemCapitalized(d, k, v) == Append(d, <<Capitalize(k), v>>)

\* d[k] = v: replaces the value of an existing key in place, appends a new key
SetItem(d, k, v) ==
    IF k \in Keys(d)
    THEN [i \in 1..Len(d) |-> IF d[i][1] = k THEN <<k, v>> ELSE d[i]]
    ELSE Append(d, <<k, v>>)

-----------------------------------------------------------------------------
(* The problems *)

Float1 == Normal(FALSE, 1, 0)

\* RectangularVolumeProblem.__init__: the parameters it passes to Problem
RectangularVolumeParameters ==
    <<<<"length", Float1>>, <<"width", Float1>>, <<"height", Float1>>>>

\* Problem(name, parameters), the base class instantiated directly: the
\* parameter dicts the model constructs it with
BaseProblemParameters == {<<>>, <<<<"x", Float1>>>>}

\* the texts a user types into a field
FieldTexts ==
    { <<"1", ".", "0">>, <<"2">>, <<"3">>, <<" ", "4", " ">>,
      <<"-", "0", ".", "5">>, <<"0">>, <<"a", "b", "c">> }

ErrorMessage == "Please enter valid numeric values for parameters"

\* the value RectangularVolumeProblem.calculate_result computes from a dict
Volume(p) ==
    FloatMul(FloatMul(GetItem(p, "length"), GetItem(p, "width")), GetItem(p, "height"))

\* a mutant of calculate_result: the volume is accumulated into the result
calculate_result_accumulating ==
    /\ result' = IF result = None THEN Volume(parameters)
                 ELSE FloatMul(result, Volume(parameters))
    /\ parameters' = parameters

\* a mutant of calculate_result: the height is left out of the product
calculate_result_area ==
    /\ result' = FloatMul(GetItem(parameters, "length"), GetItem(parameters, "width"))
    /\ parameters' = parameters

\* RectangularVolumeProblem.calculate_result
calculate_result ==
    /\ result' = Volume(parameters)
    /\ parameters' = parameters

\* RectangularVolumeProblem.text_result
text_result == <<"V", "o", "l", "u", "m", "e", " ", "=", " ">> \o PyStr(result)

-----------------------------------------------------------------------------
(* The shell *)

\* a mutant of UpdateSteps: the plot is drawn before the result is computed
UpdateStepsPlotFirst ==
    <<"clf", "plot_result", "calculate_result", "draw",
      "config_normal", "delete", "insert", "config_disabled">>

\* a mutant of UpdateSteps: the text panel is not disabled again
UpdateStepsLeftNormal ==
    <<"clf", "calculate_result", "plot_result", "draw",
      "config_normal", "delete", "insert">>

\* update_plot_and_text: its statements, in order
UpdateSteps ==
    <<"clf", "calculate_result", "plot_result", "draw",
      "config_normal", "delete", "insert", "config_disabled">>

\* a mutant of Caught: a bare except
CaughtAll(e) == TRUE

\* on_submit's except clause: the exceptions it catches
Caught(e) == e = "ValueError"

\* what the claims compare the state after on_submit with
Snapshot ==
    [parameters |-> parameters, result |-> result, figure |-> figure,
     canvas |-> canvas, text_content |-> text_content, dialogs |-> dialogs,
     entries |-> entries, edits |-> edits]

\* ProblemSolverApp.__init__ / create_widgets on a freshly constructed problem
Construct(class, params) ==
    /\ problem_class = class
    /\ parameters = params
    /\ result = None
    /\ entries = [k \in Keys(params) |-> PyStr(GetItem(params, k))]
    /\ figure = <<>>
    /\ canvas = <<>>
    /\ text_state = "disabled"
    /\ text_content = <<>>
    /\ dialogs = <<>>
    /\ pc = "idle"
    /\ idx = 0
    /\ exc = "none"
    /\ outcome = "none"
    /\ pre = [parameters |-> params, result |-> None, figure |-> <<>>,
              canvas |-> <<>>, text_content |-> <<>>, dialogs |-> <<>>,
              entries |-> [k \in Keys(params) |-> PyStr(GetItem(params, k))],
              edits |-> 0]
    /\ calls = <<>>
    /\ keys0 = Keys(params)
    /\ edits = 0
    /\ submits = 0

Init ==
    \/ Construct("RectangularVolumeProblem", RectangularVolumeParameters)
    \/ \E params \in BaseProblemParameters : Construct("Problem", params)

\* the user replaces the text of one field by another text
Edit(k, t) ==
    /\ pc = "idle"
    /\ edits < MaxEdits
    /\ t # entries[k]
    /\ entries' = [entries EXCEPT ![k] = t]
    /\ edits' = edits + 1
    /\ UNCHANGED <<problem_class, parameters, result, figure, canvas, text_state,
                   text_content, dialogs, pc, idx, exc, outcome, pre, calls,
                   keys0, submits>>

\* a mutant of OnSubmit: the figure is cleared before the fields are parsed
OnSubmitClearFirst ==
    /\ pc = "idle"
    /\ submits < MaxSubmits
    /\ pc' = "for"
    /\ idx' = 1
    /\ exc' = "none"
    /\ outcome' = "running"
    /\ pre' = Snapshot
    /\ calls' = <<>>
    /\ submits' = submits + 1
    /\ figure' = <<>>
    /\ UNCHANGED <<problem_class, parameters, result, entries, canvas,
                   text_state, text_content, dialogs, keys0, edits>>

\* the Submit button's command: on_submit is entered
OnSubmit ==
    /\ pc = "idle"
    /\ submits < MaxSubmits
    /\ pc' = "for"
    /\ idx' = 1
    /\ exc' = "none"
    /\ outcome' = "running"
    /\ pre' = Snapshot
    /\ calls' = <<>>
    /\ submits' = submits + 1
    /\ UNCHANGED <<problem_class, parameters, result, entries, figure, canvas,
                   text_state, text_content, dialogs, keys0, edits>>

\* the for loop's body when float(entry_value) returns
SetParameter ==
    /\ pc = "for"
    /\ idx <= Len(parameters)
    /\ LET k == parameters[idx][1]
       IN  /\ IsFloatText(entries[k])
           /\ parameters' = SetItem(parameters, k, StrToFloat(entries[k]))
    /\ idx' = idx + 1
    /\ calls' = Append(calls, "setitem")
    /\ UNCHANGED <<problem_class, result, entries, figure, canvas, text_state,
                   text_content, dialogs, pc, exc, outcome, pre, keys0, edits,
                   submits>>

\* the for loop's body when float(entry_value) raises ValueError
FloatRaises ==
    /\ pc = "for"
    /\ idx <= Len(parameters)
    /\ ~IsFloatText(entries[parameters[idx][1]])
    /\ exc' = "ValueError"
    /\ pc' = "raised"
    /\ UNCHANGED <<problem_class, parameters, result, entries, figure, canvas,
                   text_state, text_content, dialogs, idx, outcome, pre, calls,
                   keys0, edits, submits>>

\* the for loop is exhausted: update_plot_and_text is called
CallUpdate ==
    /\ pc = "for"
    /\ idx > Len(parameters)
    /\ pc' = "update"
    /\ idx' = 1
    /\ UNCHANGED <<problem_class, parameters, result, entries, figure, canvas,
                   text_state, text_content, dialogs, exc, outcome, pre, calls,
                   keys0, edits, submits>>

AtStep(name) == pc = "update" /\ idx <= Len(UpdateSteps) /\ UpdateSteps[idx] = name

\* plt.clf()
Clf ==
    /\ AtStep("clf")
    /\ figure' = <<>>
    /\ idx' = idx + 1
    /\ calls' = Append(calls, "clf")
    /\ UNCHANGED <<problem_class, parameters, result, entries, canvas, text_state,
                   text_content, dialogs, pc, exc, outcome, pre, keys0, edits,
                   submits>>

\* self.problem.calculate_result() on a RectangularVolumeProblem
CalculateResult ==
    /\ AtStep("calculate_result")
    /\ problem_class = "RectangularVolumeProblem"
    /\ calculate_result
    /\ idx' = idx + 1
    /\ calls' = Append(calls, "calculate_result")
    /\ UNCHANGED <<problem_class, entries, figure, canvas, text_state,
                   text_content, dialogs, pc, exc, outcome, pre, keys0, edits,
                   submits>>

\* self.problem.calculate_result() on the base Problem
CalculateResultNotImplemented ==
    /\ AtStep("calculate_result")
    /\ problem_class = "Problem"
    /\ exc' = "NotImplementedError"
    /\ pc' = "raised"
    /\ calls' = Append(calls, "calculate_result")
    /\ UNCHANGED <<problem_class, parameters, result, entries, figure, canvas,
                   text_state, text_content, dialogs, idx, outcome, pre, keys0,
                   edits, submits>>

\* self.problem.plot_result(): a bar of height result; the base class's is pass
PlotResult ==
    /\ AtStep("plot_result")
    /\ figure' = IF problem_class = "RectangularVolumeProblem"
                 THEN Append(figure, result) ELSE figure
    /\ idx' = idx + 1
    /\ calls' = Append(calls, "plot_result")
    /\ UNCHANGED <<problem_class, parameters, result, entries, canvas, text_state,
                   text_content, dialogs, pc, exc, outcome, pre, keys0, edits,
                   submits>>

\* self.canvas.draw()
CanvasDraw ==
    /\ AtStep("draw")
    /\ canvas' = figure
    /\ idx' = idx + 1
    /\ calls' = Append(calls, "draw")
    /\ UNCHANGED <<problem_class, parameters, result, entries, figure, text_state,
                   text_content, dialogs, pc, exc, outcome, pre, keys0, edits,
                   submits>>

\* self.result_text.config(state=tk.NORMAL)
ConfigNormal ==
    /\ AtStep("config_normal")
    /\ text_state' = "normal"
    /\ idx' = idx + 1
    /\ UNCHANGED <<problem_class, parameters, result, entries, figure, canvas,
                   text_content, dialogs, pc, exc, outcome, pre, calls, keys0,
                   edits, submits>>

\* self.result_text.delete(1.0, tk.END): a disabled Text ignores it
TextDelete ==
    /\ AtStep("delete")
    /\ text_content' = IF text_state = "normal" THEN <<>> ELSE text_content
    /\ idx' = idx + 1
    /\ UNCHANGED <<problem_class, parameters, result, entries, figure, canvas,
                   text_state, dialogs, pc, exc, outcome, pre, calls, keys0,
                   edits, submits>>

\* self.result_text.insert(tk.END, self.problem.text_result()): the base
\* class's text_result raises; a disabled Text ignores the insert
TextInsert ==
    /\ AtStep("insert")
    /\ calls' = Append(calls, "text_result")
    /\ IF problem_class = "Problem"
       THEN /\ exc' = "NotImplementedError"
            /\ pc' = "raised"
            /\ UNCHANGED <<text_content, idx>>
       ELSE /\ text_content' = IF text_state = "normal"
                               THEN text_content \o text_result
                               ELSE text_content
            /\ idx' = idx + 1
            /\ UNCHANGED <<exc, pc>>
    /\ UNCHANGED <<problem_class, parameters, result, entries, figure, canvas,
                   text_state, dialogs, outcome, pre, keys0, edits, submits>>

\* self.result_text.config(state=tk.DISABLED)
ConfigDisabled ==
    /\ AtStep("config_disabled")
    /\ text_state' = "disabled"
    /\ idx' = idx + 1
    /\ UNCHANGED <<problem_class, parameters, result, entries, figure, canvas,
                   text_content, dialogs, pc, exc, outcome, pre, calls, keys0,
                   edits, submits>>

\* update_plot_and_text and on_submit return
Return ==
    /\ pc = "update"
    /\ idx > Len(UpdateSteps)
    /\ pc' = "idle"
    /\ outcome' = "ok"
    /\ UNCHANGED <<problem_class, parameters, result, entries, figure, canvas,
                   text_state, text_content, dialogs, idx, exc, pre, calls,
                   keys0, edits, submits>>

\* except ValueError: messagebox.showerror(...), then on_submit returns
ExceptValueError ==
    /\ pc = "raised"
    /\ Caught(exc)
    /\ dialogs' = Append(dialogs, ErrorMessage)
    /\ calls' = Append(calls, "showerror")
    /\ pc' = "idle"
    /\ outcome' = "invalid"
    /\ UNCHANGED <<problem_class, parameters, result, entries, figure, canvas,
                   text_state, text_content, idx, exc, pre, keys0, edits,
                   submits>>

\* any other exception leaves on_submit; Tk reports it and the loop goes on
Propagate ==
    /\ pc = "raised"
    /\ ~Caught(exc)
    /\ pc' = "idle"
    /\ outcome' = "raised"
    /\ UNCHANGED <<problem_class, parameters, result, entries, figure, canvas,
                   text_state, text_content, dialogs, idx, exc, pre, calls,
                   keys0, edits, submits>>

Next ==
    \/ \E k \in DOMAIN entries, t \in FieldTexts : Edit(k, t)
    \/ OnSubmit
    \/ SetParameter
    \/ FloatRaises
    \/ CallUpdate
    \/ Clf
    \/ CalculateResult
    \/ CalculateResultNotImplemented
    \/ PlotResult
    \/ CanvasDraw
    \/ ConfigNormal
    \/ TextDelete
    \/ TextInsert
    \/ ConfigDisabled
    \/ Return
    \/ ExceptValueError
    \/ Propagate

Spec == Init /\ [][Next]_vars

-----------------------------------------------------------------------------
(* The problem used through its API alone: parameters are set directly and *)
(* calculate_result is called any number of times.                         *)

MaxCalls == 4

FloatValues == {StrToFloat(t) : t \in {u \in FieldTexts : IsFloatText(u)}}

InitCalc == Construct("RectangularVolumeProblem", RectangularVolumeParameters)

\* problem.parameters[k] = v
SetParameterDirect(k, v) ==
    /\ Len(calls) < MaxCalls
    /\ parameters' = SetItem(parameters, k, v)
    /\ calls' = Append(calls, "setitem")
    /\ UNCHANGED <<problem_class, result, entries, figure, canvas, text_state,
                   text_content, dialogs, pc, idx, exc, outcome, pre, keys0,
                   edits, submits>>

\* problem.calculate_result()
CallCalculateResult ==
    /\ Len(calls) < MaxCalls
    /\ calculate_result
    /\ calls' = Append(calls, "calculate_result")
    /\ UNCHANGED <<problem_class, entries, figure, canvas, text_state,
                   text_content, dialogs, pc, idx, exc, outcome, pre, keys0,
                   edits, submits>>

NextCalc ==
    \/ \E k \in Keys(parameters), v \in FloatValues : SetParameterDirect(k, v)
    \/ CallCalculateResult

SpecCalc == InitCalc /\ [][NextCalc]_vars

-----------------------------------------------------------------------------
(* The claims *)

Chars_Volume == <<"V", "o", "l", "u", "m", "e", " ", "=", " ">>

Returned == pc = "idle" /\ outcome # "none"

IsRect == problem_class = "RectangularVolumeProblem"

AllParse(e) == \A k \in DOMAIN e : IsFloatText(e[k])

Untouched == [length |-> <<"1", ".", "0">>, width |-> <<"1", ".", "0">>,
              height |-> <<"1", ".", "0">>]

Entries234 == [length |-> <<"2">>, width |-> <<"3">>, height |-> <<" ", "4", " ">>]

EntriesNegZero == [length |-> <<"-", "0", ".", "5">>, width |-> <<"0">>,
                   height |-> <<"1", ".", "0">>]

\* C1: after an on_submit in which some field did not parse, problem.parameters
\* is exactly the mapping it was before the submit.
C1_AllOrNothing ==
    (Returned /\ ~AllParse(pre.entries)) => parameters = pre.parameters

\* C2: after an on_submit on a RectangularVolumeProblem in which every field
\* parsed, each parameter is the parsed value of its own field, result is
\* length * width * height of those values, and the text panel holds exactly
\* "Volume = <result>"; fields 2, 3, 4 give 24 and "Volume = 24.0", and fields
\* -0.5, 0, 1.0 give the negative zero and "Volume = -0.0".
C2_ValidSubmit ==
    (Returned /\ IsRect /\ AllParse(pre.entries)) =>
        /\ outcome = "ok"
        /\ Keys(parameters) = DOMAIN pre.entries
        /\ \A k \in DOMAIN pre.entries :
               GetItem(parameters, k) = StrToFloat(pre.entries[k])
        /\ result = FloatMul(FloatMul(StrToFloat(pre.entries["length"]),
                                      StrToFloat(pre.entries["width"])),
                             StrToFloat(pre.entries["height"]))
        /\ text_content = Chars_Volume \o PyStr(result)
        /\ pre.entries = Entries234 =>
               /\ result = [tag |-> "float", neg |-> FALSE, num |-> 24, exp |-> 0]
               /\ text_content = Chars_Volume \o <<"2", "4", ".", "0">>
        /\ pre.entries = EntriesNegZero =>
               /\ result = [tag |-> "float", neg |-> TRUE, num |-> 0, exp |-> 0]
               /\ text_content = Chars_Volume \o <<"-", "0", ".", "0">>

C2_Witness == Returned /\ IsRect /\ outcome = "ok" /\ pre.entries = Entries234

\* C3: after an on_submit in which some field did not parse, the error dialog
\* with the fixed message has been shown exactly once, the figure, the canvas,
\* the stored result and the text panel are as before the submit, and the submit
\* called nothing but the parameter writes and showerror.
C3_InvalidSubmit ==
    (Returned /\ ~AllParse(pre.entries)) =>
        /\ outcome = "invalid"
        /\ dialogs = Append(pre.dialogs,
                            "Please enter valid numeric values for parameters")
        /\ figure = pre.figure
        /\ canvas = pre.canvas
        /\ result = pre.result
        /\ text_content = pre.text_content
        /\ calls # <<>>
        /\ calls[Len(calls)] = "showerror"
        /\ \A i \in 1..(Len(calls) - 1) : calls[i] = "setitem"

C3_Witness ==
    /\ Returned /\ ~AllParse(pre.entries)
    /\ pre.result # None /\ pre.figure # <<>> /\ pre.text_content # <<>>
    /\ Len(calls) > 1

\* C4: a call of calculate_result that directly follows another call of it
\* leaves result as the first call set it and leaves parameters unchanged.
C4_Idempotent ==
    [][(/\ calls # <<>>
        /\ calls[Len(calls)] = "calculate_result"
        /\ calls' = Append(calls, "calculate_result"))
       => (result' = result /\ parameters' = parameters)]_vars

C4_Witness ==
    /\ Len(calls) >= 2
    /\ calls[Len(calls)] = "calculate_result"
    /\ calls[Len(calls) - 1] = "calculate_result"
    /\ result \notin {None, Float1}
    /\ parameters # RectangularVolumeParameters

\* C5: a freshly constructed RectangularVolumeProblem has length = width =
\* height = 1.0 and no result, and the shell shows no result; the first submit,
\* made with the pre-filled fields untouched, ends normally with result 1.0 and
\* the text panel holding "Volume = 1.0".
C5_Defaults ==
    /\ (IsRect /\ submits = 0) =>
           /\ parameters = <<<<"length", [tag |-> "float", neg |-> FALSE, num |-> 1, exp |-> 0]>>,
                             <<"width", [tag |-> "float", neg |-> FALSE, num |-> 1, exp |-> 0]>>,
                             <<"height", [tag |-> "float", neg |-> FALSE, num |-> 1, exp |-> 0]>>>>
           /\ result = None
           /\ text_content = <<>>
           /\ canvas = <<>>
    /\ (IsRect /\ edits = 0) => entries = Untouched
    /\ (IsRect /\ Returned /\ submits = 1 /\ pre.edits = 0) =>
           /\ outcome = "ok"
           /\ result = [tag |-> "float", neg |-> FALSE, num |-> 1, exp |-> 0]
           /\ text_content = Chars_Volume \o <<"1", ".", "0">>

C5_Witness == IsRect /\ Returned /\ submits = 1 /\ pre.edits = 0

\* C6: in every reachable state the keys of problem.parameters are the keys it
\* had at construction, each once, and are the parameters that have a field.
C6_KeysFixed ==
    /\ Keys(parameters) = keys0
    /\ Len(parameters) = Cardinality(keys0)
    /\ DOMAIN entries = Keys(parameters)

C6_Witness ==
    /\ Returned /\ submits = 2 /\ outcome = "invalid"
    /\ pre.result # None
    /\ parameters # pre.parameters

\* C7: on the base Problem, an on_submit whose fields all parse ends with
\* NotImplementedError leaving on_submit: no dialog is shown, text_result is
\* not called and the text panel is not written.
C7_NotImplemented ==
    (Returned /\ problem_class = "Problem" /\ AllParse(pre.entries)) =>
        /\ outcome = "raised"
        /\ exc = "NotImplementedError"
        /\ dialogs = pre.dialogs
        /\ text_content = pre.text_content
        /\ \A i \in 1..Len(calls) : calls[i] \notin {"showerror", "text_result"}

C7_Witness ==
    /\ Returned /\ problem_class = "Problem" /\ AllParse(pre.entries)
    /\ pre.entries # <<>> /\ pre.edits > 0

\* C8: an on_submit that ends normally has made its calls in the order: every
\* parameter write, clf, calculate_result, plot_result, draw, text_result;
\* plot_result and text_result are entered only with a result present, and
\* plot_result only on a figure cleared since the previous draw.
C8_Order ==
    /\ (Returned /\ outcome = "ok") =>
           calls = [i \in 1..Len(parameters) |-> "setitem"]
                       \o <<"clf", "calculate_result", "plot_result", "draw",
                            "text_result">>
    /\ AtStep("plot_result") => (result # None /\ figure = <<>>)
    /\ AtStep("insert") => result # None
    /\ Len(figure) <= 1

C8_Witness == Returned /\ outcome = "ok" /\ submits = 2 /\ pre.figure # <<>>

\* C9: whenever the shell waits for the next user action the text panel is
\* disabled; it is normal only inside update_plot_and_text.
C9_ReadOnly ==
    /\ pc = "idle" => text_state = "disabled"
    /\ text_state = "normal" => pc = "update"

C9_Witness ==
    /\ pc = "idle" /\ outcome = "invalid" /\ text_content # <<>>
    /\ text_state = "disabled"

\* C10: on a RectangularVolumeProblem, whenever the shell waits for the next
\* user action and a result has been displayed, the stored result and the
\* displayed text are the product of the current problem.parameters.
C10_DisplayFresh ==
    (pc = "idle" /\ IsRect /\ text_content # <<>>) =>
        /\ result = Volume(parameters)
        /\ text_content = Chars_Volume \o PyStr(Volume(parameters))

=============================================================================
